---- MODULE Spec2Model ----
(***************************************************************************)
(* A model of console-taskgraph's TaskGraph (src/src/taskgraph.js): the    *)
(* constructor, run() with its refresh closure, _runNode and utils.skip,   *)
(* under the JavaScript job queue: every handler runs to completion, the   *)
(* promise reactions (.catch(reject), the continuation of run's await)     *)
(* are jobs taken in FIFO order.  A task body is the caller's code: it may *)
(* call utils.skip (once), and it returns any result or throws, at any     *)
(* time after it was started.  The step in which a body settles and the    *)
(* continuation of _runNode after its await are one action: nothing the    *)
(* model records changes between the two.  Keys are integers, which        *)
(* Object.keys lists in ascending order; requires and provides are sets.   *)
(* This version of taskgraph.js has no Lock class, no target option and no *)
(* failed state: task.locks is carried by the node and never read.  One    *)
(* call of utils.waitFor on a stream or an observable (WaitSpec) and the    *)
(* operations of a Lock (LockSpec) are modelled on their own.               *)
(***************************************************************************)
EXTENDS Integers, Sequences, FiniteSets, TLC

\* ---------------------------------------------------------------- bounds
\* the keys a result object may hold (the task lists below use keys 1 and 2)
NumKeys == 2

Keys == 1..NumKeys
LockNames == {"qbit", "gpu"}

Absent == "absent"
\* values a task body can put under a key, the value the executor
\* synthesises for a falsy return, the value of a pre-seeded key
ResultVals == {"v"}
TrueVal == "true"
SeedVal == "seed"

\* an object: the keys it lacks map to Absent
KeysOf(obj) == {k \in Keys : obj[k] /= Absent}
EmptyObject == [k \in Keys |-> Absent]

\* the key of an object that is named after an option of the documented
\* utils.skip({provides, reason}) ('provides' or 'reason'), not a key of Keys
OptionKey == 0

\* what a task body returns: an object (truthy, even when empty) or a value
\* for which !result holds (undefined, null, ...); options tells that the
\* object has an own key 'provides' or 'reason'
Falsy == [truthy |-> FALSE, obj |-> EmptyObject, options |-> FALSE]
\* the object {provides: P} or {provides: P, reason: R} or {reason: R}
SkipArgument == [truthy |-> TRUE, obj |-> EmptyObject, options |-> TRUE]
Results ==
  {[truthy |-> TRUE, obj |-> o, options |-> FALSE] : o \in [Keys -> ResultVals \cup {Absent}]}
    \cup {Falsy, SkipArgument}

VARIABLES
  tasks,      \* node.task of every node of this.nodes: requires, provides, locks
  capacity,   \* options.locks: the capacity of every lock
  held,       \* options.locks: the held-count of every lock
  target,     \* options.target: the set of keys asked for (none: {})
  runState,   \* run(): "idle", "awaiting", "returned", "threw"
  thrown,     \* the node whose error run() threw (0: none)
  context,    \* the context object of run()
  state,      \* node.state
  pc,         \* the _runNode call of a node: "idle", "body", "done", "rejected", "caught"
  err,        \* the error _runNode rejected with ("none": none)
  promise,    \* the promise run() awaits: "pending", "resolved", "rejected"
  reason,     \* the node whose error the promise was rejected with (0: none)
  queue,      \* the job queue: nodes whose .catch(reject) is to run, 0 for run's continuation
  calls,      \* the calls the renderer received from the last handler, in order
  seed,       \* history: the keys of the context run() was given
  firstFailed,\* history: the first node whose _runNode rejected (0: none)
  invoked,    \* history: how many times _runNode was called for every node
  lockError,  \* the fatal error the last operation on a lock raised ("none": none)
  input,      \* the events the source given to utils.waitFor has yet to deliver
  buffer,     \* streamToLoggingObservable: the bytes of the line not yet ended
  logged,     \* the values of the ('log', value) updates of the waiting node, in order
  waitState,  \* the promise utils.waitFor returned: "idle", "waiting", "resolved", "rejected"
  delivered   \* history: the events the source has delivered, in order

\* the state of one lock operation and of one call of utils.waitFor
utilVars == <<lockError, input, buffer, logged, waitState, delivered>>

vars == <<tasks, capacity, held, target, runState, thrown, context, state, pc, err, promise,
          reason, queue, calls, seed, firstFailed, invoked, utilVars>>

\* this.nodes, by position in the list
Nodes == DOMAIN tasks

\* ------------------------------------------------------------ the inputs
\* the capacity given to every lock of options.locks
MaxCapacity == 1

\* a task as the constructor keeps it (line 65): requires and provides default
\* to [], every other property of the task object (locks) is kept as given;
\* title and run tell whether the task object has these properties
Task(req, prov, lks) ==
  [requires |-> req, provides |-> prov, locks |-> lks, title |-> TRUE, run |-> TRUE]

\* a chain and a join (test 'executes a graph')
ChainGraph == <<Task({}, {1}, {}), Task({1}, {2}, {}), Task({1, 2}, {}, {})>>
\* two sources and a join
JoinGraph == <<Task({}, {1}, {}), Task({}, {2}, {}), Task({1, 2}, {}, {})>>
\* tasks under one lock (test 'seralizes with locks')
LockGraph == <<Task({}, {1}, {}), Task({}, {}, {"qbit"}), Task({1}, {}, {"qbit"})>>
\* independent tasks (test 'completes running tasks before throwing a failure')
IndependentGraph == <<Task({}, {}, {}), Task({}, {}, {}), Task({}, {}, {})>>
\* an independent task beside a source and its dependent
MixedGraph == <<Task({}, {}, {}), Task({}, {1}, {}), Task({1}, {}, {})>>
\* two tasks that provide the same key
DuplicateGraph == <<Task({}, {1}, {}), Task({}, {1}, {})>>
\* a task with two keys and its dependent (test 'skips')
TwoKeyGraph == <<Task({}, {1, 2}, {}), Task({2}, {}, {})>>
\* two tasks that require each other's key, beside a startable one
CycleGraph == <<Task({2}, {1}, {}), Task({1}, {2}, {}), Task({}, {}, {})>>
\* a task that requires a key no task provides, beside a startable one
OrphanGraph == <<Task({}, {}, {}), Task({2}, {}, {})>>
\* a single task (test 'succeeds if a task provides one thing and returns nothing')
SingleGraph == <<Task({}, {1}, {})>>

\* a task without title, a task without run, beside a well-formed one
NoTitleGraph == <<Task({}, {}, {}), [Task({}, {}, {}) EXCEPT !.title = FALSE]>>
NoRunGraph == <<Task({}, {}, {}), [Task({}, {}, {}) EXCEPT !.run = FALSE]>>
\* a task that names a lock options.locks does not have
UndeclaredLockGraph == <<Task({}, {}, {"disk"})>>

\* the task lists the constructor is given
Graphs ==
  { ChainGraph, JoinGraph, LockGraph, IndependentGraph, MixedGraph,
    DuplicateGraph, TwoKeyGraph, CycleGraph, OrphanGraph, SingleGraph,
    NoTitleGraph, NoRunGraph, UndeclaredLockGraph }

\* the task lists of the runs checked for termination
LiveGraphs ==
  { ChainGraph, JoinGraph, DuplicateGraph, TwoKeyGraph, CycleGraph, SingleGraph }

\* options.target is not given
NoTarget == {}

\* the target option given with a task list: targets are tried on the chain
\* (suite '_target': a target with no requirements, a target with some)
TargetOptions(g) == IF g = ChainGraph THEN {NoTarget, {1}, {2}} ELSE {NoTarget}

\* the contexts run() is given: none, or one with key 1 in it
SeedChoices == {{}, {1}}

\* the renderer's calls
StartCall == <<"start", "", 0>>
StopCall == <<"stop", "", 0>>
StateUpdate(n, value) == <<"state", value, n>>

NoError == <<"none", 0>>

\* lines 61-64: the assertions of the constructor: one fails, and new
\* TaskGraph(...) throws, when a task has no title or no run
ConstructorThrows == \E n \in DOMAIN tasks : ~tasks[n].title \/ ~tasks[n].run

\* constructor: every task given becomes a node, which starts pending; of the
\* options only the renderer is read, so the locks are as the caller made
\* them (nothing held) and the target is left aside
Init ==
  /\ tasks \in Graphs
  /\ capacity = [l \in LockNames |-> MaxCapacity]
  /\ held = [l \in LockNames |-> 0]
  /\ target \in TargetOptions(tasks)
  /\ runState = "idle"
  /\ thrown = 0
  /\ context = EmptyObject
  /\ state = [n \in DOMAIN tasks |-> "pending"]
  /\ pc = [n \in DOMAIN tasks |-> "idle"]
  /\ err = [n \in DOMAIN tasks |-> NoError]
  /\ promise = "pending"
  /\ reason = 0
  /\ queue = <<>>
  /\ calls = <<>>
  /\ seed = {}
  /\ firstFailed = 0
  /\ invoked = [n \in DOMAIN tasks |-> 0]
  /\ lockError = "none"
  /\ input = <<>>
  /\ buffer = <<>>
  /\ logged = <<>>
  /\ waitState = "idle"
  /\ delivered = <<>>

\* ------------------------------------------------------------ refresh
\* a refresh that starts every node whose requirements are met, whatever its
\* state
StartableAnyState(n, st, ctx) == \A k \in tasks[n].requires : ctx[k] /= Absent

\* a refresh that starts every pending node, whatever it requires
StartableAnyPending(n, st, ctx) == st[n] = "pending"

\* a refresh that starts one node at most, the first it finds startable
StartableFirstOnly(n, st, ctx) ==
  /\ st[n] = "pending"
  /\ \A k \in tasks[n].requires : ctx[k] /= Absent
  /\ \A m \in 1..(n - 1) :
       ~(st[m] = "pending" /\ \A k \in tasks[m].requires : ctx[k] /= Absent)

\* line 81: the test refresh makes of a node
Startable(n, st, ctx) ==
  /\ st[n] = "pending"
  /\ \A k \in tasks[n].requires : ctx[k] /= Absent

\* a refresh that resolves once no node is running
NoneRunning(st) == \A n \in Nodes : st[n] /= "running"

\* a refresh that does not count skipped nodes as complete
AllFinished(st) == \A n \in Nodes : st[n] = "finished"

\* a refresh that resolves once no node is pending
NonePending(st) == \A n \in Nodes : st[n] /= "pending"

\* line 85: the test refresh makes before it calls resolve()
AllTerminal(st) == \A n \in Nodes : st[n] \in {"finished", "skipped"}

\* resolve() and reject() settle the promise once; later calls change nothing
Settle(p, to) == IF p = "pending" THEN to ELSE p

\* lines 137-138 and 124-125: what the renderer is told while refresh walks
\* the node list from node n on; a node of skipNow calls utils.skip before its
\* body first suspends
RECURSIVE PassUpdates(_, _, _)
PassUpdates(n, admitted, skipNow) ==
  IF n > Len(tasks) THEN <<>>
  ELSE (IF n \in admitted
          THEN <<StateUpdate(n, "running")>>
               \o (IF n \in skipNow THEN <<StateUpdate(n, "skipped")>> ELSE <<>>)
          ELSE <<>>)
       \o PassUpdates(n + 1, admitted, skipNow)

\* lines 78-88: one call of refresh, from node states st, _runNode positions
\* pcs and context ctx, after the renderer calls upd of the same handler
Refresh(st, pcs, ctx, upd, skipNow) ==
  LET admitted == {n \in Nodes : Startable(n, st, ctx)}
      st2 == [n \in Nodes |->
                IF n \in admitted
                  THEN (IF n \in skipNow THEN "skipped" ELSE "running")
                  ELSE st[n]]
  IN /\ skipNow \subseteq admitted
     /\ state' = st2
     /\ pc' = [n \in Nodes |-> IF n \in admitted THEN "body" ELSE pcs[n]]
     /\ calls' = upd \o PassUpdates(1, admitted, skipNow)
     /\ invoked' = [n \in Nodes |-> IF n \in admitted THEN invoked[n] + 1 ELSE invoked[n]]
     /\ IF AllTerminal(st2)
          THEN /\ promise' = Settle(promise, "resolved")
               /\ queue' = IF promise = "pending" THEN Append(queue, 0) ELSE queue
          ELSE UNCHANGED <<promise, queue>>

\* lines 74-90: run(context) up to its await
Run ==
  /\ ~ConstructorThrows
  /\ runState = "idle"
  /\ \E seedKeys \in SeedChoices, skipNow \in SUBSET Nodes :
       LET ctx == [k \in Keys |-> IF k \in seedKeys THEN SeedVal ELSE Absent]
       IN /\ seed' = seedKeys
          /\ context' = ctx
          /\ Refresh(state, pc, ctx, <<StartCall>>, skipNow)
  /\ runState' = "awaiting"
  /\ UNCHANGED <<tasks, capacity, held, target, utilVars, thrown, err, reason, firstFailed>>

\* ------------------------------------------------------------ _runNode
\* lines 123-127: the task body calls utils.skip while it runs (what the call
\* returns is its argument, which the body may then return: TaskReturn)
TaskSkip(n) ==
  /\ pc[n] = "body"
  /\ state[n] = "running"
  /\ state' = [state EXCEPT ![n] = "skipped"]
  /\ calls' = <<StateUpdate(n, "skipped")>>
  /\ UNCHANGED <<tasks, capacity, held, target, utilVars, runState, thrown, context, pc, err, promise,
                 reason, queue, seed, firstFailed, invoked>>

\* _runNode rejects with error e: the reaction .catch(reject) of line 82
\* becomes a job (what became of the context is said by the caller)
Rejects(n, e) ==
  /\ pc' = [pc EXCEPT ![n] = "rejected"]
  /\ err' = [err EXCEPT ![n] = e]
  /\ queue' = Append(queue, n)
  /\ firstFailed' = IF firstFailed = 0 THEN n ELSE firstFailed
  /\ calls' = <<>>
  /\ UNCHANGED <<tasks, capacity, held, target, utilVars, runState, thrown, state, promise,
                 reason, seed, invoked>>

\* line 142: the task body throws (its promise rejects)
TaskThrow(n) ==
  /\ pc[n] = "body"
  /\ Rejects(n, <<"thrown", 0>>)
  /\ UNCHANGED context

Min(S) == CHOOSE x \in S : \A y \in S : x <= y

\* a convenience that takes a falsy result for {} whatever the task provides
NormalizeToEmpty(n, result) ==
  IF ~result.truthy THEN EmptyObject ELSE result.obj

\* lines 144-147: a falsy result stands for {key: true} or {}
Normalize(n, result) ==
  IF ~result.truthy
    THEN [k \in Keys |->
            IF Cardinality(tasks[n].provides) = 1 /\ k \in tasks[n].provides
              THEN TrueVal ELSE Absent]
    ELSE result.obj

\* a check that lets a result replace a key the context already holds
CheckKeyDeclaredOnly(n, k, ctx) ==
  IF k \notin tasks[n].provides THEN "unexpected" ELSE "ok"

\* lines 151-152: the two assertions on one key of the result
CheckKey(n, k, ctx) ==
  IF ctx[k] /= Absent THEN "already"
  ELSE IF k \notin tasks[n].provides THEN "unexpected"
  ELSE "ok"

\* lines 144-156: the first assertion that fails for this result, NoError when
\* none does (Object.keys lists integer keys in ascending order, and the keys
\* 'provides' and 'reason' after them; no task declares a key of that name)
Validate(n, result, ctx) ==
  IF ~result.truthy /\ Cardinality(tasks[n].provides) > 1 THEN <<"multiple", 0>>
  ELSE LET obj == Normalize(n, result)
           bad == {k \in KeysOf(obj) : CheckKey(n, k, ctx) /= "ok"}
           missing == {k \in tasks[n].provides : obj[k] = Absent}
       IN IF bad /= {} THEN <<CheckKey(n, Min(bad), ctx), Min(bad)>>
          ELSE IF result.options THEN <<"unexpected", OptionKey>>
          ELSE IF missing /= {} THEN <<"missing", Min(missing)>>
          ELSE NoError

\* line 157: Object.assign(context, result)
Assign(ctx, obj) == [k \in Keys |-> IF obj[k] /= Absent THEN obj[k] ELSE ctx[k]]

\* a _runNode that assigns the result to the context before it checks it
MergeBeforeChecks(n, result, ctx) == Assign(ctx, Normalize(n, result))

\* lines 144-157: the context after the assertions and Object.assign, which
\* is reached only when no assertion throws
Merge(n, result, ctx) ==
  IF Validate(n, result, ctx) = NoError
    THEN Assign(ctx, Normalize(n, result))
    ELSE ctx

\* a _runNode that marks its node finished whatever its state
FinishesAlways(st) == TRUE

\* line 159: a node that is not skipped becomes finished
Finishes(st) == st /= "skipped"

\* lines 142-163: the task body returns result and _runNode goes on to its
\* end; the nodes of skipNow call utils.skip as the last refresh starts them
TaskReturnResult(n, result, skipNow) ==
  /\ pc[n] = "body"
  /\ IF Validate(n, result, context) /= NoError
       THEN /\ skipNow = {}
            /\ context' = Merge(n, result, context)
            /\ Rejects(n, Validate(n, result, context))
       ELSE LET ctx == Merge(n, result, context)
                finishes == Finishes(state[n])
                st == IF finishes THEN [state EXCEPT ![n] = "finished"] ELSE state
                upd == IF finishes THEN <<StateUpdate(n, "finished")>> ELSE <<>>
            IN /\ context' = ctx
               /\ Refresh(st, [pc EXCEPT ![n] = "done"], ctx, upd, skipNow)
               /\ UNCHANGED <<tasks, capacity, held, target, utilVars, runState, thrown, err, reason,
                              seed, firstFailed>>

\* line 142: the task body returns, with whatever result it chooses; an
\* object with the option keys is what its call of utils.skip returned
TaskReturn(n) ==
  \E result \in Results, skipNow \in SUBSET Nodes :
    /\ result = SkipArgument => state[n] = "skipped"
    /\ TaskReturnResult(n, result, skipNow)

\* ------------------------------------------------------------ the jobs
\* a reject that replaces the reason of a promise already settled
LastReason(p, old, n) == n

\* line 82: reject(err) gives the promise its reason only while it is pending
RejectReason(p, old, n) == IF p = "pending" THEN n ELSE old

\* line 82: .catch(reject) runs for node n
CatchReject(n) ==
  /\ queue /= <<>>
  /\ Head(queue) = n
  /\ pc' = [pc EXCEPT ![n] = "caught"]
  /\ promise' = Settle(promise, "rejected")
  /\ reason' = RejectReason(promise, reason, n)
  /\ queue' = IF promise = "pending" THEN Append(Tail(queue), 0) ELSE Tail(queue)
  /\ calls' = <<>>
  /\ UNCHANGED <<tasks, capacity, held, target, utilVars, runState, thrown, context, state, err,
                 seed, firstFailed, invoked>>

\* lines 90-95: the await of run() ends: finally, then return or throw
RunContinue ==
  /\ queue /= <<>>
  /\ Head(queue) = 0
  /\ queue' = Tail(queue)
  /\ calls' = <<StopCall>>
  /\ runState' = IF promise = "resolved" THEN "returned" ELSE "threw"
  /\ thrown' = IF promise = "resolved" THEN 0 ELSE reason
  /\ UNCHANGED <<tasks, capacity, held, target, utilVars, context, state, pc, err, promise, reason,
                 seed, firstFailed, invoked>>

Next ==
  \/ Run
  \/ \E n \in Nodes : TaskSkip(n)
  \/ \E n \in Nodes : TaskThrow(n)
  \/ \E n \in Nodes : TaskReturn(n)
  \/ \E n \in Nodes : CatchReject(n)
  \/ RunContinue

Spec == Init /\ [][Next]_vars

\* the constructor, given one of the task lists checked for termination and
\* no target
FairInit == Init /\ tasks \in LiveGraphs /\ target = NoTarget

\* The event loop runs every queued job, run() is called, and every task body
\* that was started returns or throws.
FairSpec ==
  /\ FairInit
  /\ [][Next]_vars
  /\ WF_vars(Run)
  /\ WF_vars(\E n \in Nodes : TaskReturn(n) \/ TaskThrow(n))
  /\ WF_vars(\E n \in Nodes : CatchReject(n))
  /\ WF_vars(RunContinue)

\* ------------------------------------------------------------ Lock
\* The Lock class that the README and the tests import from taskgraph.js is
\* not in this version of the file; it is modelled from its contract:
\* available() (n < N), acquire() and release().

\* the largest capacity a Lock is constructed with
MaxLockCapacity == 3

\* the variables of a graph and its run
graphVars == <<tasks, target, runState, thrown, context, state, pc, err, promise,
               reason, queue, calls, seed, firstFailed, invoked>>

\* a graph of one task, constructed and not run
Unstarted ==
  /\ tasks = SingleGraph
  /\ target = NoTarget
  /\ runState = "idle"
  /\ thrown = 0
  /\ context = EmptyObject
  /\ state = [n \in DOMAIN tasks |-> "pending"]
  /\ pc = [n \in DOMAIN tasks |-> "idle"]
  /\ err = [n \in DOMAIN tasks |-> NoError]
  /\ promise = "pending"
  /\ reason = 0
  /\ queue = <<>>
  /\ calls = <<>>
  /\ seed = {}
  /\ firstFailed = 0
  /\ invoked = [n \in DOMAIN tasks |-> 0]

\* new Lock(N) for every lock name: nothing held
LockInit ==
  /\ Unstarted
  /\ capacity \in [LockNames -> 1..MaxLockCapacity]
  /\ held = [l \in LockNames |-> 0]
  /\ lockError = "none"
  /\ input = <<>>
  /\ buffer = <<>>
  /\ logged = <<>>
  /\ waitState = "idle"
  /\ delivered = <<>>

\* a lock that counts a slot as available while n <= N
LockAvailableUpTo(n, N) == n <= N

\* available()
LockAvailable(n, N) == n < N

\* acquire(): a fatal error when the lock is not available, else one more held
LockAcquire(l) ==
  /\ IF LockAvailable(held[l], capacity[l])
       THEN /\ held' = [held EXCEPT ![l] = held[l] + 1]
            /\ lockError' = "none"
       ELSE /\ held' = held
            /\ lockError' = "acquire"
  /\ UNCHANGED <<graphVars, capacity, input, buffer, logged, waitState, delivered>>

\* release(): a fatal error when nothing is held, else one less held
LockRelease(l) ==
  /\ IF held[l] > 0
       THEN /\ held' = [held EXCEPT ![l] = held[l] - 1]
            /\ lockError' = "none"
       ELSE /\ held' = held
            /\ lockError' = "release"
  /\ UNCHANGED <<graphVars, capacity, input, buffer, logged, waitState, delivered>>

LockNext ==
  \/ \E l \in LockNames : LockAcquire(l)
  \/ \E l \in LockNames : LockRelease(l)

LockSpec == LockInit /\ [][LockNext]_vars

\* ------------------------------------------------------------ utils.waitFor
\* One call of utils.waitFor(value) by a running task body, value being a
\* byte stream or an observable; the source delivers its events one by one.

\* line 337: the byte buffer.indexOf looks for
LineFeed == 10
\* another byte ('a')
Letter == 97
Bytes == {Letter, LineFeed}

\* the chunks (or values) a source delivers, and their length
MaxChunks == 2
MaxChunkLen == 2

SeqsUpTo(S, n) == UNION {[1..m -> S] : m \in 0..n}
Chunks == SeqsUpTo(Bytes, MaxChunkLen) \ {<<>>}

\* an event of a source; isBuffer tells whether the data is a Buffer (else a
\* string or an object, of which bytes is the toString())
Event(kind, isBuffer, bytes) == [kind |-> kind, isBuffer |-> isBuffer, bytes |-> bytes]

\* a stream: 'data' events, all Buffers or all not, then 'end', 'error' or
\* nothing more
StreamInputs ==
  { [i \in DOMAIN chunks |-> Event("data", b, chunks[i])] \o last :
      b \in BOOLEAN,
      chunks \in SeqsUpTo(Chunks, MaxChunks),
      last \in {<<>>, <<Event("end", TRUE, <<>>)>>, <<Event("streamError", TRUE, <<>>)>>} }

\* an observable: values, then complete, error or nothing more
ObservableInputs ==
  { [i \in DOMAIN values |-> Event("next", FALSE, values[i])] \o last :
      values \in SeqsUpTo(Chunks, MaxChunks),
      last \in {<<>>, <<Event("complete", FALSE, <<>>)>>, <<Event("error", FALSE, <<>>)>>} }

\* a task body about to call utils.waitFor on a stream or an observable
WaitInit ==
  /\ Unstarted
  /\ capacity = [l \in LockNames |-> MaxCapacity]
  /\ held = [l \in LockNames |-> 0]
  /\ lockError = "none"
  /\ input \in StreamInputs \cup ObservableInputs
  /\ buffer = <<>>
  /\ logged = <<>>
  /\ waitState = "idle"
  /\ delivered = <<>>

\* a subscriber that keeps only the latest value
SubscriberNextLatest(log, value) == <<value>>

\* line 110: next: data => this.renderer.update(node, 'log', data)
SubscriberNext(log, value) == Append(log, value)

\* buffer.indexOf(0x0a): the first position of a line feed, 0 when none
\* (positions from 1)
IndexOf(buf, byte) ==
  IF \E i \in DOMAIN buf : buf[i] = byte
    THEN CHOOSE i \in DOMAIN buf : buf[i] = byte /\ \A j \in 1..(i - 1) : buf[j] /= byte
    ELSE 0

\* a loop that emits one line for each 'data' event
DrainOnce(buf, log) ==
  LET i == IndexOf(buf, LineFeed)
  IN IF i = 0 THEN [buffer |-> buf, logged |-> log]
     ELSE [buffer |-> SubSeq(buf, i + 1, Len(buf)),
           logged |-> SubscriberNext(log, SubSeq(buf, 1, i - 1))]

\* lines 336-340: the while loop of onData: observer.next for every line
\* ended in the buffer
RECURSIVE Drain(_, _)
Drain(buf, log) ==
  LET i == IndexOf(buf, LineFeed)
  IN IF i = 0 THEN [buffer |-> buf, logged |-> log]
     ELSE Drain(SubSeq(buf, i + 1, Len(buf)),
                SubscriberNext(log, SubSeq(buf, 1, i - 1)))

\* lines 101-121: utils.waitFor(value): the stream is wrapped (line 103) and
\* the observable subscribed to (lines 107-113)
WaitFor ==
  /\ waitState = "idle"
  /\ waitState' = "waiting"
  /\ UNCHANGED <<graphVars, capacity, held, lockError, input, buffer, logged, delivered>>

\* the source delivers its next event
Deliver(kind) ==
  /\ waitState = "waiting"
  /\ input /= <<>>
  /\ Head(input).kind = kind
  /\ input' = Tail(input)
  /\ delivered' = Append(delivered, Head(input))
  /\ UNCHANGED <<graphVars, capacity, held, lockError>>

\* lines 331-341: onData
OnData ==
  /\ Deliver("data")
  /\ LET data == IF Head(input).isBuffer THEN Head(input).bytes
                  ELSE Append(Head(input).bytes, LineFeed)
         after == Drain(buffer \o data, logged)
     IN /\ buffer' = after.buffer
        /\ logged' = after.logged
  /\ UNCHANGED waitState

\* lines 346-352: onEnd, and complete: resolve (line 111)
OnEnd ==
  /\ Deliver("end")
  /\ logged' = IF Len(buffer) > 0 THEN SubscriberNext(logged, buffer) ELSE logged
  /\ waitState' = "resolved"
  /\ UNCHANGED buffer

\* lines 342-345: onError, and error: reject (line 112)
OnError ==
  /\ Deliver("streamError")
  /\ waitState' = "rejected"
  /\ UNCHANGED <<buffer, logged>>

\* line 110: the observable emits a value
ObservableNext ==
  /\ Deliver("next")
  /\ logged' = SubscriberNext(logged, Head(input).bytes)
  /\ UNCHANGED <<buffer, waitState>>

\* line 111: the observable completes
ObservableComplete ==
  /\ Deliver("complete")
  /\ waitState' = "resolved"
  /\ UNCHANGED <<buffer, logged>>

\* line 112: the observable fails
ObservableError ==
  /\ Deliver("error")
  /\ waitState' = "rejected"
  /\ UNCHANGED <<buffer, logged>>

WaitNext ==
  \/ WaitFor
  \/ OnData
  \/ OnEnd
  \/ OnError
  \/ ObservableNext
  \/ ObservableComplete
  \/ ObservableError

WaitSpec == WaitInit /\ [][WaitNext]_vars

\* ------------------------------------------------------------ the claims
Failed(n) == pc[n] \in {"rejected", "caught"}
Settled == runState \in {"returned", "threw"}

\* C1: a node leaves pending only in a step after which every key it requires
\* is in the context, each pre-seeded or provided by a node whose _runNode
\* has completed; the renderer is told `state running` in that same step.
C1_StartsOnlyWithRequires ==
  [][\A n \in Nodes :
       (state[n] = "pending" /\ state'[n] /= "pending") =>
         /\ \A k \in tasks[n].requires :
              /\ context'[k] /= Absent
              /\ k \in seed' \/ \E m \in Nodes : pc'[m] = "done" /\ k \in tasks[m].provides
         /\ \E i \in DOMAIN calls' : calls'[i] = StateUpdate(n, "running")]_vars

C1_Witness ==
  \E n \in Nodes : state[n] = "running" /\ tasks[n].requires /= {} /\ seed = {}

\* C2: for every lock, the nodes in state running that declare it are at most
\* its capacity.
C2_LockCapacity ==
  \A l \in LockNames :
    Cardinality({n \in Nodes : state[n] = "running" /\ pc[n] = "body"
                                 /\ l \in tasks[n].locks}) <= capacity[l]

\* C3: once a node has failed, no pending node leaves pending.
C3_NoStartAfterFailure ==
  [][firstFailed /= 0 => \A n \in Nodes : state[n] = "pending" => state'[n] = "pending"]_vars

\* C4: when run() rejects and the renderer is stopped, no started node is
\* still running its body.
C4_RejectsAfterDrain ==
  (calls = <<StopCall>> /\ runState = "threw") => \A n \in Nodes : pc[n] /= "body"

\* C5: run() rejects with the error of the node that failed first; the error
\* of a node that fails later never replaces it.
C5_FirstErrorThrown ==
  /\ promise = "rejected" => (reason /= 0 /\ reason = firstFailed)
  /\ runState = "threw" => (thrown /= 0 /\ thrown = firstFailed)

C5_Witness ==
  /\ runState = "threw"
  /\ \E n \in Nodes : n /= thrown /\ pc[n] = "caught"

\* C6: a node whose task body throws becomes failed, and in that step the
\* renderer is told (state, failed) and then (fail, the error).
C6_FailureRendered ==
  [][\A n \in Nodes :
       (pc[n] = "body" /\ pc'[n] = "rejected" /\ err'[n][1] = "thrown") =>
         /\ state'[n] = "failed"
         /\ calls' = <<StateUpdate(n, "failed"), <<"fail", "thrown", n>>>>]_vars

\* the requires/provides relation: m provides a key that n requires
Feeds(m, n) == tasks[m].provides \cap tasks[n].requires /= {}
RECURSIVE FeedsWithin(_, _, _)
FeedsWithin(m, n, steps) ==
  /\ steps > 0
  /\ \/ Feeds(m, n)
     \/ \E x \in Nodes : Feeds(m, x) /\ FeedsWithin(x, n, steps - 1)
Acyclic == \A n \in Nodes : ~FeedsWithin(n, n, Len(tasks))
AllProvided ==
  \A n \in Nodes : \A k \in tasks[n].requires : \E m \in Nodes : k \in tasks[m].provides

\* a run that waits for nothing: a node is pending, the promise is unsettled,
\* and no task body or job is left to run
Stuck ==
  /\ runState = "awaiting" /\ promise = "pending" /\ queue = <<>>
  /\ \E n \in Nodes : state[n] = "pending"
  /\ \A n \in Nodes : pc[n] /= "body"

\* C7: for an acyclic task list whose required keys are all provided and whose
\* bodies all return or throw, run() returns or throws, and no state on the
\* way is stuck.
C7_RunSettles == (Acyclic /\ AllProvided) => (<>Settled /\ []~Stuck)

C7_Witness ==
  /\ Acyclic /\ AllProvided /\ Len(tasks) = 3
  /\ runState = "returned"
  /\ \E n \in Nodes : tasks[n].requires /= {} /\ pc[n] = "done"

\* C8: when run() has returned from an empty context (and no task body or job
\* is left to run), the keys of the context are the keys the finished and
\* skipped nodes provide.
C8_ContextIsProvided ==
  (runState = "returned" /\ seed = {} /\ queue = <<>> /\ \A n \in Nodes : pc[n] /= "body") =>
    KeysOf(context) =
      UNION {tasks[n].provides : n \in {m \in Nodes : state[m] \in {"finished", "skipped"}}}

\* C9: a node that was running when the first failure was recorded and whose
\* body has since returned or thrown is finished, skipped or failed.
C9_RunningNodesComplete ==
  \A n \in Nodes :
    (firstFailed /= 0 /\ n /= firstFailed /\ pc[n] \in {"done", "rejected", "caught"}) =>
      state[n] \in {"finished", "skipped", "failed"}

\* C10 as stated: run() resolves as soon as every node is finished or skipped.
C10_ResolvesAsSoonAsTerminal ==
  (runState /= "idle" /\ AllTerminal(state)) => promise /= "pending"

\* C10 as amended: the promise is resolved only when every node is finished or
\* skipped, and every refresh that finds them so leaves the promise settled.
C10_ResolvesOnlyWhenTerminal ==
  /\ [](promise = "resolved" => \A n \in Nodes : state[n] \in {"finished", "skipped"})
  /\ [][((runState = "idle" /\ runState' /= "idle")
          \/ \E n \in Nodes : pc[n] = "body" /\ pc'[n] = "done")
        => ((\A n \in Nodes : state'[n] \in {"finished", "skipped"}) => promise' /= "pending")]_vars

C10_Witness ==
  /\ runState = "returned" /\ Len(tasks) >= 2
  /\ \E n \in Nodes : state[n] = "skipped"
  /\ \E n \in Nodes : state[n] = "finished"

\* C11: a key that is in the context keeps its value in every step: it is
\* never overwritten and never removed.
C11_ContextMonotonic ==
  [][\A k \in Keys : context[k] /= Absent => context'[k] = context[k]]_vars

\* a node returned a key the context already held, and the context kept it
C11_Witness ==
  \E n \in Nodes : \E k \in Keys :
    /\ err[n] = <<"already", k>>
    /\ context[k] /= Absent

\* the task body of node n has returned or thrown
Ended(n) == pc[n] \in {"done", "rejected", "caught"}

\* C12: two nodes that declare the same provides key never both end finished
\* or skipped: of two whose bodies have both returned a key they share, one
\* was rejected ('already been provided') and is neither finished nor skipped.
C12_OneContributor ==
  \A m, n \in Nodes :
    (/\ m /= n
     /\ tasks[m].provides \cap tasks[n].provides /= {}
     /\ Ended(m) /\ Ended(n)
     /\ err[m][1] \in {"none", "already"} /\ err[n][1] \in {"none", "already"}) =>
      ~(state[m] \in {"finished", "skipped"} /\ state[n] \in {"finished", "skipped"})

\* C13: a node whose result lacks a key of its provides becomes failed in
\* that step, and the renderer is told (state, failed) and then (fail, the
\* 'did not provide expected' error).
C13_MissingKeyFails ==
  [][\A n \in Nodes :
       (pc[n] = "body" /\ pc'[n] = "rejected" /\ err'[n][1] = "missing") =>
         /\ state'[n] = "failed"
         /\ calls' = <<StateUpdate(n, "failed"), <<"fail", "missing", n>>>>]_vars

\* C14: a node whose result holds a key it does not declare is failed, and
\* when run() throws its 'unexpected' error no task body is still running.
C14_UnexpectedKeyFails ==
  \A n \in Nodes :
    err[n][1] = "unexpected" =>
      /\ state[n] = "failed"
      /\ (runState = "threw" /\ thrown = n) => \A m \in Nodes : pc[m] /= "body"

\* C15: when the body of a running node returns a falsy value, with one
\* provides key k (not yet in the context) the context gets k = true and
\* nothing else, with no provides key the context is unchanged; in both cases
\* the node becomes finished.
C15_FalsyResult ==
  [][\A n \in Nodes :
       (/\ pc[n] = "body" /\ pc'[n] /= "body"
        /\ state[n] = "running"
        /\ Cardinality(tasks[n].provides) <= 1
        /\ \A k \in tasks[n].provides : context[k] = Absent
        /\ TaskReturnResult(n, Falsy, {m \in Nodes : state[m] = "pending"
                                                      /\ state'[m] = "skipped"})) =>
         /\ state'[n] = "finished"
         /\ pc'[n] = "done"
         /\ context' = [k \in Keys |-> IF k \in tasks[n].provides THEN TrueVal
                                                                ELSE context[k]]]_vars

\* a node without provides and a node with one provides key have both
\* finished, and the key is true in the context
C15_Witness ==
  \E m, n \in Nodes : \E k \in Keys :
    /\ tasks[m].provides = {} /\ state[m] = "finished"
    /\ tasks[n].provides = {k} /\ state[n] = "finished"
    /\ context[k] = TrueVal

\* C16: a node whose body returns a falsy value while it declares more than
\* one provides key becomes failed, and nothing is merged into the context.
C16_FalsyMultipleFails ==
  [][\A n \in Nodes :
       (pc[n] = "body" /\ pc'[n] = "rejected" /\ err'[n][1] = "multiple") =>
         /\ state'[n] = "failed"
         /\ context' = context]_vars

\* C17: when a body that called utils.skip returns what skip({provides: P})
\* returned, with P holding the keys the task provides, the node ends skipped
\* (its _runNode is not rejected) and the context holds every key of P.
C17_SkipProvides ==
  [][\A n \in Nodes :
       (/\ pc[n] = "body" /\ pc'[n] /= "body"
        /\ state[n] = "skipped"
        /\ \A k \in tasks[n].provides : context[k] = Absent
        /\ TaskReturnResult(n, SkipArgument, {})) =>
         /\ pc'[n] = "done"
         /\ state'[n] = "skipped"
         /\ \A k \in tasks[n].provides : context'[k] /= Absent]_vars

\* C18: the step that makes a node skipped tells the renderer (state,
\* skipped) and right after it (skip, reason), and no step tells it (state,
\* finished) for a node that is skipped.
C18_SkipRendered ==
  [][\A n \in Nodes :
       /\ (state[n] /= "skipped" /\ state'[n] = "skipped") =>
            \E i \in DOMAIN calls' :
              /\ calls'[i] = StateUpdate(n, "skipped")
              /\ i + 1 \in DOMAIN calls'
              /\ calls'[i + 1][1] = "skip" /\ calls'[i + 1][3] = n
       /\ state[n] = "skipped" =>
            \A i \in DOMAIN calls' : calls'[i] /= StateUpdate(n, "finished")]_vars

\* the nodes that provide a key of K
Providers(K) == {n \in Nodes : tasks[n].provides \cap K /= {}}

\* the nodes reachable backwards from the nodes of S: S, the providers of
\* what S requires, and so on
RECURSIVE RequiredBy(_)
RequiredBy(S) ==
  LET more == S \cup Providers(UNION {tasks[n].requires : n \in S})
  IN IF more = S THEN S ELSE RequiredBy(more)

\* C19: with a target, the node list run() works on (the list after
\* construction) holds exactly the nodes reachable backwards from the
\* providers of the target keys, and no other node ever leaves pending.
C19_TargetSelects ==
  (target /= NoTarget /\ runState /= "idle") =>
    /\ Nodes = RequiredBy(Providers(target))
    /\ \A n \in Nodes \ RequiredBy(Providers(target)) : state[n] = "pending"

\* C20: the held-count of every lock is the number of running nodes that
\* declare it, between 0 and the capacity, and 0 once run() has settled.
C20_LockBalance ==
  \A l \in LockNames :
    /\ held[l] = Cardinality({n \in Nodes : state[n] = "running" /\ pc[n] = "body"
                                              /\ l \in tasks[n].locks})
    /\ 0 <= held[l] /\ held[l] <= capacity[l]
    /\ Settled => held[l] = 0

\* C21: the held-count of a lock stays between 0 and its capacity; acquire()
\* adds one when n < N and otherwise raises a fatal error and leaves n as it
\* is; release() takes one off when n > 0 and otherwise raises a fatal error;
\* neither operation waits.
C21_LockOperations ==
  /\ [](\A l \in LockNames : 0 <= held[l] /\ held[l] <= capacity[l])
  /\ [][\A l \in LockNames :
         /\ LockAcquire(l) =>
              IF held[l] < capacity[l]
                THEN held'[l] = held[l] + 1 /\ lockError' = "none"
                ELSE held' = held /\ lockError' = "acquire"
         /\ LockRelease(l) =>
              IF held[l] = 0
                THEN held' = held /\ lockError' = "release"
                ELSE held'[l] = held[l] - 1 /\ lockError' = "none"]_vars

\* acquire() was refused on a lock of capacity 2 or more that is full, while
\* the other lock has a free slot
C21_Witness ==
  /\ lockError = "acquire"
  /\ \E l \in LockNames : capacity[l] >= 2 /\ held[l] = capacity[l]
  /\ \E l \in LockNames : held[l] < capacity[l]

\* a task names a lock that options.locks does not have
UndeclaredLock == \E n \in Nodes : ~(tasks[n].locks \subseteq LockNames)

\* C22: when a task has no title or no run, or names a lock that
\* options.locks does not have, the constructor throws: run() never starts,
\* no task body is invoked and the renderer is never called.
C22_ConstructionFails ==
  (ConstructorThrows \/ UndeclaredLock) =>
    /\ runState = "idle"
    /\ \A n \in Nodes : pc[n] = "idle" /\ state[n] = "pending"
    /\ calls = <<>>

\* C23: the renderer's start is called once, before any update; stop is
\* called once; and no update is delivered after stop.
C23_StartUpdatesStop ==
  [][/\ (\E i \in DOMAIN calls' : calls'[i] = StartCall) =>
          /\ runState = "idle"
          /\ calls'[1] = StartCall
          /\ \A i \in DOMAIN calls' : i > 1 => calls'[i] /= StartCall
     /\ (\E i \in DOMAIN calls' : calls'[i] = StopCall) =>
          /\ ~Settled
          /\ calls' = <<StopCall>>
     /\ Settled => \A i \in DOMAIN calls' : calls'[i][1] /= "state"]_vars

\* the bytes of the Buffers among the events evs, one after the other
RECURSIVE BytesOf(_)
BytesOf(evs) ==
  IF evs = <<>> THEN <<>>
  ELSE (IF Head(evs).kind = "data" THEN Head(evs).bytes ELSE <<>>) \o BytesOf(Tail(evs))

\* the lines of a byte string: what stands between line feeds, and a last
\* line without line feed when it is not empty (line is the line begun)
RECURSIVE LinesOf(_, _)
LinesOf(bytes, line) ==
  IF bytes = <<>> THEN (IF line = <<>> THEN <<>> ELSE <<line>>)
  ELSE IF Head(bytes) = LineFeed THEN <<line>> \o LinesOf(Tail(bytes), <<>>)
  ELSE LinesOf(Tail(bytes), Append(line, Head(bytes)))

IsByteStream(evs) ==
  /\ evs /= <<>>
  /\ \A i \in DOMAIN evs : evs[i].kind \in {"data", "end", "streamError"} /\ evs[i].isBuffer

\* C24: for a stream of Buffers, the values logged are the lines of the bytes
\* received so far, whatever the chunks were: all of them once waitFor has
\* resolved (with the last line that has no line feed), and till then all but
\* the line still in the buffer; waitFor resolves only at the end of the
\* stream.
C24_StreamLines ==
  IsByteStream(delivered) =>
    /\ waitState = "resolved" =>
         /\ logged = LinesOf(BytesOf(delivered), <<>>)
         /\ delivered[Len(delivered)].kind = "end"
    /\ waitState /= "resolved" =>
         /\ logged \o (IF buffer = <<>> THEN <<>> ELSE <<buffer>>)
              = LinesOf(BytesOf(delivered), <<>>)
         /\ \A i \in DOMAIN buffer : buffer[i] /= LineFeed

\* a stream that ended after a chunk with two line feeds and a chunk that
\* ends without one
C24_Witness ==
  /\ waitState = "resolved"
  /\ Len(delivered) = 3
  /\ delivered[1] = Event("data", TRUE, <<LineFeed, LineFeed>>)
  /\ delivered[2] = Event("data", TRUE, <<LineFeed, Letter>>)
  /\ Len(logged) = 4

\* the values of the next events among evs, in order
RECURSIVE ValuesOf(_)
ValuesOf(evs) ==
  IF evs = <<>> THEN <<>>
  ELSE (IF Head(evs).kind = "next" THEN <<Head(evs).bytes>> ELSE <<>>) \o ValuesOf(Tail(evs))

IsObservable(evs) ==
  /\ evs /= <<>>
  /\ \A i \in DOMAIN evs : evs[i].kind \in {"next", "complete", "error"}

\* C25: for an observable, the values logged are the values emitted, in
\* order; waitFor resolves only when the observable completes, nothing is
\* logged after that, and an error of the observable rejects waitFor.
C25_ObservableLogs ==
  /\ [](IsObservable(delivered) =>
          /\ logged = ValuesOf(delivered)
          /\ waitState = "resolved" <=> delivered[Len(delivered)].kind = "complete"
          /\ waitState = "rejected" <=> delivered[Len(delivered)].kind = "error")
  /\ [][waitState = "resolved" => logged' = logged]_vars

\* an observable that emitted two values and completed
C25_Witness ==
  /\ IsObservable(delivered)
  /\ waitState = "resolved"
  /\ Len(logged) = 2 /\ logged[1] /= logged[2]

\* C26: a node leaves pending only for running (the renderer is told so
\* before anything else about the node in that step), a running node goes
\* only to skipped, finished or failed, and a node that is skipped, finished
\* or failed keeps its state for ever.
C26_Lifecycle ==
  [][\A n \in Nodes :
       /\ (state[n] = "pending" /\ state'[n] /= "pending") =>
            /\ state'[n] \in {"running", "skipped"}
            /\ \E i \in DOMAIN calls' :
                 /\ calls'[i] = StateUpdate(n, "running")
                 /\ \A j \in DOMAIN calls' :
                      (calls'[j][1] = "state" /\ calls'[j][3] = n) => j >= i
       /\ state[n] = "running" => state'[n] \in {"running", "skipped", "finished", "failed"}
       /\ state[n] \in {"skipped", "finished", "failed"} => state'[n] = state[n]]_vars

\* a node called utils.skip and its body then returned a valid result: it is
\* still skipped, beside a finished node
C26_Witness ==
  /\ \E n \in Nodes : state[n] = "skipped" /\ pc[n] = "done"
  /\ \E n \in Nodes : state[n] = "finished"

\* a step that holds an admission pass: run() starts, or a node completes
AdmissionPass ==
  \/ runState = "idle" /\ runState' /= "idle"
  \/ \E n \in Nodes : pc[n] = "body" /\ pc'[n] = "done"

\* every lock the node declares has a free slot
LocksAvailable(n) ==
  \A l \in tasks[n].locks \cap LockNames : held[l] < capacity[l]

\* C27: after an admission pass with no failure recorded, no node is left
\* pending whose requires keys are all in the context and whose locks are all
\* available; and no node admitted in the pass has completed in it.
C27_MaximalPass ==
  [][(AdmissionPass /\ firstFailed' = 0) =>
       \A n \in Nodes :
         /\ state'[n] = "pending" =>
              ~(/\ \A k \in tasks[n].requires : context'[k] /= Absent
                /\ LocksAvailable(n)')
         /\ (state[n] = "pending" /\ state'[n] /= "pending") => pc'[n] = "body"]_vars

\* the pass after a completion admitted the node that required its key and
\* left pending a node that still lacks one
C27_Witness ==
  /\ firstFailed = 0 /\ seed = {}
  /\ \E n \in Nodes : pc[n] = "done"
  /\ \E n \in Nodes : pc[n] = "body" /\ tasks[n].requires /= {}
  /\ \E n \in Nodes : state[n] = "pending"

\* the nodes a step admits that declare lock l
AdmittedWith(l) ==
  {m \in Nodes : state[m] = "pending" /\ state'[m] /= "pending" /\ l \in tasks[m].locks}

\* C28: in the step in which a running node that declares a lock completes,
\* its slot is released before the admission pass of that step: the
\* held-count loses that slot and gains those of the nodes the pass admits,
\* and a pending node that only lacked that slot is admitted in the pass, its
\* (state, running) right after the (state, finished) of the holder.
C28_ReleaseBeforePass ==
  [][\A n \in Nodes : \A l \in tasks[n].locks \cap LockNames :
       (pc[n] = "body" /\ pc'[n] = "done" /\ firstFailed' = 0) =>
         /\ held'[l] = held[l] - 1 + Cardinality(AdmittedWith(l))
         /\ \A m \in Nodes :
              (/\ state[m] = "pending"
               /\ tasks[m].locks = {l}
               /\ \A k \in tasks[m].requires : context[k] /= Absent) =>
                 /\ state'[m] = "running"
                 /\ \E i \in DOMAIN calls' :
                      /\ calls'[i] = StateUpdate(n, "finished")
                      /\ i + 1 \in DOMAIN calls'
                      /\ calls'[i + 1] = StateUpdate(m, "running")]_vars

\* the nodes that run their body and declare lock l
RunningWith(l) == {m \in Nodes : pc[m] = "body" /\ l \in tasks[m].locks}

\* C29: in every step the (state, running) updates come in the order of the
\* task list; and the nodes a pass admits under a lock are no more than the
\* slots left, the earliest of the list among those that could start.
C29_ListOrder ==
  [][/\ \A i, j \in DOMAIN calls' :
          (/\ i < j
           /\ calls'[i][1] = "state" /\ calls'[i][2] = "running"
           /\ calls'[j][1] = "state" /\ calls'[j][2] = "running") =>
            calls'[i][3] < calls'[j][3]
     /\ \A l \in LockNames :
          /\ Cardinality(AdmittedWith(l)) <=
               capacity[l] - Cardinality({m \in RunningWith(l) : pc'[m] = "body"})
          /\ \A a \in AdmittedWith(l) : \A m \in Nodes :
               (/\ m < a
                /\ l \in tasks[m].locks
                /\ state[m] = "pending"
                /\ \A k \in tasks[m].requires : context'[k] /= Absent) =>
                  m \in AdmittedWith(l)]_vars

\* C30: a node is admitted only in a step before which every lock it
\* declares has a free slot, and in that step it acquires them all; a node
\* that is pending holds no lock, so the locks held are those of the nodes
\* running.
C30_AllOrNothing ==
  /\ [](\A l \in LockNames :
          held[l] = 0 \/ \E n \in Nodes : state[n] = "running" /\ l \in tasks[n].locks)
  /\ [][\A n \in Nodes :
         (state[n] = "pending" /\ state'[n] = "running") =>
           \A l \in tasks[n].locks \cap LockNames :
             /\ Cardinality({m \in RunningWith(l) : pc'[m] = "body"}) < capacity[l]
             /\ held'[l] >= 1]_vars

\* C31: _runNode is called at most once for every node, whatever the order of
\* completions and refreshes: a node that was admitted is never pending
\* again, so no later pass of refresh starts it a second time.
C31_InvokedOnce ==
  \A n \in Nodes :
    /\ invoked[n] <= 1
    /\ invoked[n] >= 1 => state[n] /= "pending"
    /\ pc[n] /= "idle" => invoked[n] = 1

\* a node started by run() is still in its body, its requirements met, after
\* the completion of another node made refresh pass over it
C31_Witness ==
  \E n, m \in Nodes :
    /\ n /= m
    /\ tasks[n].requires = {}
    /\ pc[n] = "body"
    /\ state[n] = "running"
    /\ invoked[n] = 1
    /\ pc[m] = "done"
    /\ state[m] = "finished"

\* C32: a step in which _runNode rejects (the body threw, or an assertion on
\* the result failed) leaves the context as it was and starts no node; so
\* every key of the context was given to run() or is provided by a node
\* whose _runNode completed.
C32_AtomicMerge ==
  /\ [](\A k \in Keys :
          context[k] /= Absent =>
            k \in seed \/ \E m \in Nodes : pc[m] = "done" /\ k \in tasks[m].provides)
  /\ [][\A n \in Nodes :
         (pc[n] = "body" /\ pc'[n] = "rejected") =>
           (context' = context /\ state' = state /\ invoked' = invoked)]_vars

\* a node that provides keys 1 and 2 returned key 1 only (the first key found
\* missing is 2): the context is empty, key 1 too, and its dependent is pending
C32_Witness ==
  \E n, m \in Nodes :
    /\ err[n] = <<"missing", 2>>
    /\ Cardinality(tasks[n].provides) = 2
    /\ pc[n] \in {"rejected", "caught"}
    /\ tasks[m].requires /= {}
    /\ tasks[m].requires \subseteq tasks[n].provides
    /\ state[m] = "pending"
    /\ context = EmptyObject

\* the keys that can come into a context that holds the keys K: those of K
\* and those provided by a task whose requirements can all come into it
RECURSIVE Obtainable(_)
Obtainable(K) ==
  LET more == K \cup UNION {tasks[m].provides :
                              m \in {x \in Nodes : tasks[x].requires \subseteq K}}
  IN IF more = K THEN K ELSE Obtainable(more)

\* node n requires a key that no task provides, or lies on a cycle of
\* requires and provides: its requirements never come into the context
NeverStartable(n) == ~(tasks[n].requires \subseteq Obtainable(seed))

\* C33: while no _runNode has rejected, a run of a graph with a node that can
\* never become startable is unsettled: the promise run() awaits is pending,
\* run() has not returned or thrown, the renderer's stop was not called, and
\* the node is still pending; this holds at every time, so for ever once
\* the startable nodes have completed.
C33_StuckRunUnsettled ==
  \A n \in Nodes :
    (runState /= "idle" /\ firstFailed = 0 /\ NeverStartable(n)) =>
      /\ state[n] = "pending"
      /\ invoked[n] = 0
      /\ promise = "pending"
      /\ runState = "awaiting"
      /\ queue = <<>>
      /\ \A i \in DOMAIN calls : calls[i] /= StopCall

\* every node that can start has completed, none has failed, a node that can
\* never start is left: nothing more can happen and run() is unsettled
C33_Witness ==
  /\ runState = "awaiting"
  /\ firstFailed = 0
  /\ promise = "pending"
  /\ queue = <<>>
  /\ \E n \in Nodes : NeverStartable(n) /\ state[n] = "pending"
  /\ \E m \in Nodes : ~NeverStartable(m)
  /\ \A m \in Nodes : ~NeverStartable(m) => pc[m] = "done"
  /\ ~ENABLED Next

====
